---- MODULE Spec2Model ----
(***************************************************************************)
(* A model of contexter's runner, src/ctx.py: the `run` pipeline (rare     *)
(* facts, scope, budget, dependency sanity, freshness, pack write, guard), *)
(* the smart truncation of one file section, and the `watch` loop.         *)
(*                                                                         *)
(* Abstractions, stated once:                                              *)
(*  - a file's text is its character count (len of "\n".join(lines)), the  *)
(*    import-like references its text holds, and, for the truncation of a  *)
(*    section, the sequence of its line kinds;                             *)
(*  - a path is the sequence of its components;                            *)
(*  - a regular expression is the set of strings it matches;               *)
(*  - times are integers; the local zone is its offset from UTC.           *)
(***************************************************************************)
EXTENDS Integers, Sequences, FiniteSets

VARIABLES
    cfgfile,      \* whether CONTEXTER.yaml exists
    cfg,          \* what CONTEXTER.yaml holds
    environ,      \* os.environ: the names that are set
    tree_tokens,  \* the tokens grep_token finds somewhere under ROOT
    tree,         \* the files under ROOT, in rglob order
    disk,         \* the expanded candidate paths that exist under ROOT
    modified,     \* what `git diff --name-only` and `git ls-files -m` list
    tz,           \* the local zone's offset from UTC
    clock,        \* the wall clock, UTC
    pc,           \* cmd_run's position
    files,        \* cmd_run: files
    entries,      \* cmd_run: entries
    deps,         \* cmd_run: deps
    total_toks,   \* cmd_run: total_toks
    truncated,    \* cmd_run: truncated
    totals,       \* cmd_run: totals
    ok_deps,      \* cmd_run: ok_deps
    missing,      \* cmd_run: missing
    outside,      \* cmd_run: outside
    pack,         \* contexter/pack/CONTEXTPACK.md: the documents written, in order
    plan,         \* PLAN.md: the appended blocks
    exit_code,    \* the process's exit status; {} while it runs
    cmd,          \* args.cmd
    wpc,          \* cmd_watch's position
    prev,         \* cmd_watch: prev, as the set of << path, mtime >>
    cur,          \* cmd_watch: cur
    changed,      \* cmd_watch: changed, at the last poll
    runs,         \* the number of cmd_run calls cmd_watch has made
    lines,        \* emit_file_section: the line kinds of the file
    etruncated,   \* emit_file_section: truncated
    md            \* emit_file_section: the anchors listed; << >> before the call

vars == << cfgfile, cfg, environ, tree_tokens, tree, disk, modified, tz, clock, pc,
           files, entries, deps, total_toks, truncated, totals, ok_deps,
           missing, outside, pack, plan, exit_code, cmd, wpc, prev, cur,
           changed, runs, lines, etruncated, md >>

envVars == << environ, tree_tokens, tree, disk, modified, tz, clock >>
runVars == << pc, files, entries, deps, total_toks, truncated, totals,
              ok_deps, missing, outside, pack, plan, exit_code >>
watchVars == << wpc, prev, cur, changed, runs >>
sectionVars == << lines, etruncated, md >>

----------------------------------------------------------------------------
(* Bounds of the model. *)

MaxFiles == 3       \* files in the tree (budget specification)
MaxChars == 12      \* characters in one file
MaxBudget == 4      \* budgets.token_limit
MaxLen == 9         \* lines in the file of a section
MaxSnippet == 4     \* pack.per_file_snippet_lines
MaxTail == 3        \* pack.tail_lines_on_truncate
MaxTime == 2        \* the clock and the commit times
MaxMtime == 1       \* st_mtime of a watched file
MaxRuns == 2        \* cmd_run calls of one watch session
MaxRefs == 2        \* references in the text of one file
MaxWatched == 2     \* files of the watched tree

(* Program constants. *)

TokenDivisor == 4
MinSpan == 8
DefaultSnippetLines == 180
DefaultTailLines == 40

----------------------------------------------------------------------------
(* Small helpers. *)

Max(a, b) == IF a >= b THEN a ELSE b
Min(a, b) == IF a <= b THEN a ELSE b

RECURSIVE SeqsUpTo(_, _)
SeqsUpTo(S, n) ==
    IF n = 0 THEN { << >> }
    ELSE LET shorter == SeqsUpTo(S, n - 1)
         IN  shorter \cup { Append(s, x) : s \in { t \in shorter : Len(t) = n - 1 }, x \in S }

approx_tokens(chars) == Max(1, chars \div TokenDivisor)

----------------------------------------------------------------------------
(* The configuration: the keys of CONTEXTER.yaml the model reads. *)

BaseCfg ==
    [ token_limit            |-> MaxBudget,
      sanity_mode            |-> "warn",
      ignore_targets         |-> {},
      path_aliases           |-> << >>,
      dependency_kinds       |-> {"import", "http", "db", "queue"},
      rf_env                 |-> << >>,
      rf_flags               |-> << >>,
      rf_paths               |-> << >>,
      pack_freshness         |-> TRUE,
      per_file_snippet_lines |-> DefaultSnippetLines,
      tail_lines_on_truncate |-> DefaultTailLines,
      mid_block_pick         |-> "none" ]

----------------------------------------------------------------------------
(* Budget Accountant. *)

\* build_entries: one entry per file, truncated False, and the corpus estimate.
build_entries(fs) ==
    [ i \in 1..Len(fs) |-> [ path |-> fs[i].path, chars |-> fs[i].chars, truncated |-> FALSE ] ]

\* len(txt): splitlines drops the newline that ends the text.
txt_chars(f) == f.chars + f.trail

RECURSIVE SumChars(_, _)
SumChars(fs, i) == IF i = 0 THEN 0 ELSE txt_chars(fs[i]) + SumChars(fs, i - 1)

build_total_toks(fs) == approx_tokens(SumChars(fs, Len(fs)))

\* The loop of enforce_budget from entry i on, `used` tokens already taken.
RECURSIVE BudgetPass(_, _, _, _)
BudgetPass(es, i, used, budget) ==
    IF i > Len(es) THEN es
    ELSE LET est == approx_tokens(es[i].chars)
         IN  IF used + est <= budget
             THEN BudgetPass(es, i + 1, used + est, budget)
             ELSE BudgetPass([es EXCEPT ![i].truncated = TRUE], i + 1, used, budget)

enforce_budget(es, c) == BudgetPass(es, 1, 0, c.token_limit)

truncated_any(es) == \E i \in 1..Len(es) : es[i].truncated

----------------------------------------------------------------------------
(* Anchor Selector / Truncator.  A line is "decl" when it matches the       *)
(* declaration pattern of largest_span, "blank" when it is empty, "code"    *)
(* otherwise.                                                               *)

LineKinds == {"decl", "blank", "code"}

\* The end of the span of the declaration on line s: the line of the first
\* "\n\n" after the match (the empty line j+1 that has a line after it), or
\* the last line; at least s + MinSpan, at most the last line.
SpanEnd(ls, s) ==
    LET n == Len(ls)
        gaps == { j \in s..(n - 2) : ls[j + 1] = "blank" }
        first == CHOOSE j \in gaps : \A k \in gaps : j <= k
        naive == IF gaps # {} THEN first + 1 ELSE n
    IN  Min(Max(naive, s + MinSpan), n)

\* largest_span: << >> for None, or the first span of the greatest end - start.
largest_span(ls) ==
    LET starts == { s \in 1..Len(ls) : ls[s] = "decl" }
        width(s) == SpanEnd(ls, s) - s
        best == CHOOSE s \in starts :
                    \A t \in starts : width(t) < width(s) \/ (width(t) = width(s) /\ s <= t)
    IN  IF starts = {} THEN << >> ELSE << best, SpanEnd(ls, best) >>

\* `if a not in uniq: uniq.append(a)`, in order.
RECURSIVE Uniq(_)
Uniq(s) ==
    IF s = << >> THEN << >>
    ELSE LET front == Uniq(SubSeq(s, 1, Len(s) - 1))
             a == s[Len(s)]
         IN  IF \E i \in 1..Len(front) : front[i] = a THEN front ELSE Append(front, a)

\* sorted(uniq, key=lambda x: x[0]): stable, by start.
RECURSIVE SortByStart(_)
SortByStart(s) ==
    IF s = << >> THEN << >>
    ELSE LET front == SortByStart(SubSeq(s, 1, Len(s) - 1))
             a == s[Len(s)]
             k == Cardinality({ i \in 1..Len(front) : front[i][1] <= a[1] })
         IN  SubSeq(front, 1, k) \o << a >> \o SubSeq(front, k + 1, Len(front))

\* emit_file_section: the anchors it lists, in the order it lists them.
emit_file_section(ls, c, trunc) ==
    LET max_lines == c.per_file_snippet_lines
        tail_n == c.tail_lines_on_truncate
        total == Len(ls)
        head_end == Max(1, Min(total, max_lines - tail_n))
        span == largest_span(ls)
        mid == IF c.mid_block_pick = "largest_function" /\ span # << >>
               THEN << span >> ELSE << >>
        tail_start == Max(1, total - tail_n + 1)
        anchors == << << 1, head_end >> >> \o mid \o << << tail_start, total >> >>
    IN  IF ~trunc THEN << << 1, Min(total, max_lines) >> >>
        ELSE SortByStart(Uniq(anchors))

----------------------------------------------------------------------------
(* Scope Resolver.  A file of the tree is                                   *)
(*   [ path, chars, trail, refs, commit, mtime, skip ]:                     *)
(* chars is len("\n".join(lines)), trail the newline splitlines drops,      *)
(* refs the << target, kind >> its text holds, commit what                  *)
(* `git log -1 --format=%ct` prints for it (<< >> for nothing), skip        *)
(* whether a deny or ignore pattern matches it or it sniffs as binary.      *)

ControlFiles == { << "PLAN.md" >>, << "CONTEXTER.yaml" >>, << "ctx.py" >> }
OutputDirs == { "contexter", ".contexter" }

\* rp.startswith("contexter/") or rp.startswith(".contexter/")
UnderOutputDir(path) == Len(path) >= 2 /\ path[1] \in OutputDirs

InScope(f) == ~UnderOutputDir(f.path) /\ f.path \notin ControlFiles /\ ~f.skip

\* allowed_files: the files of the tree in scope, in rglob order.
allowed_files(t) == SelectSeq(t, InScope)

----------------------------------------------------------------------------
(* Rare facts. *)

RECURSIVE MissOf(_, _, _)
MissOf(kind, keys, found) ==
    IF keys = << >> THEN << >>
    ELSE LET rest == MissOf(kind, Tail(keys), found)
         IN  IF Head(keys) \in found THEN rest ELSE << << kind, Head(keys) >> >> \o rest

\* verify_rare_facts with a fault: the environment variables are not checked.
verify_rare_facts_skips_env(c, env, toks) ==
    MissOf("flag", c.rf_flags, toks) \o MissOf("path", c.rf_paths, toks)

\* verify_rare_facts: env names not set, then flag and path tokens not found.
verify_rare_facts(c, env, toks) ==
    MissOf("env", c.rf_env, env) \o MissOf("flag", c.rf_flags, toks)
        \o MissOf("path", c.rf_paths, toks)

----------------------------------------------------------------------------
(* Dependency Extractor and Dependency Sanity Checker. *)

ExternalKinds == { "http", "db", "queue" }

RECURSIVE EdgesOf(_, _, _)
EdgesOf(path, refs, kinds) ==
    IF refs = << >> THEN << >>
    ELSE LET r == Head(refs)
             rest == EdgesOf(path, Tail(refs), kinds)
         IN  IF r[2] \in kinds THEN << << path, r[1], r[2] >> >> \o rest ELSE rest

\* build_entries' deps: infer_deps of every file, in order.
RECURSIVE infer_all(_, _)
infer_all(fs, c) ==
    IF fs = << >> THEN << >>
    ELSE EdgesOf(Head(fs).path, Head(fs).refs, c.dependency_kinds) \o infer_all(Tail(fs), c)

\* apply_aliases: the substitution of every rule whose pattern matches, or
\* the target itself.  A rule is [ from |-> the targets it matches, to |->
\* what re.sub gives ].
RECURSIVE AliasOut(_, _)
AliasOut(target, aliases) ==
    IF aliases = << >> THEN << >>
    ELSE LET rule == Head(aliases)
             rest == AliasOut(target, Tail(aliases))
         IN  IF target \in rule.from THEN << rule.to >> \o rest ELSE rest

apply_aliases(target, aliases) ==
    LET out == AliasOut(target, aliases)
    IN  IF out = << >> THEN << target >> ELSE out

\* c.strip("/."), on the strings of the model.
Strip(c) ==
    CASE c = "." -> ""
      [] c = "./lib/" -> "lib"
      [] OTHER -> c

\* c.startswith("http"), on the strings of the model.
StartsWithHttp(c) == c \in { "httpx" }

Suffixes ==
    << "", ".py", ".ts", ".tsx", ".js", "/__init__.py", "/index.ts", "/index.tsx",
       "/index.js", ".cpp", ".hpp", ".cc", ".cxx", ".c", ".h", ".cu" >>

RECURSIVE Expand(_)
Expand(candidates) ==
    IF candidates = << >> THEN << >>
    ELSE LET c == Strip(Head(candidates))
             rest == Expand(Tail(candidates))
         IN  IF c = "" \/ StartsWithHttp(c) THEN rest
             ELSE [ i \in 1..Len(Suffixes) |-> << c, Suffixes[i] >> ] \o rest

\* resolve_dep_target: [] for an ignored target, else the candidate paths.
resolve_dep_target(raw_target, c) ==
    IF \E rx \in c.ignore_targets : raw_target \in rx THEN << >>
    ELSE Uniq(Expand(apply_aliases(raw_target, c.path_aliases)))

Exists(candidates, d) == \E i \in 1..Len(candidates) : candidates[i] \in d

RECURSIVE MissingOf(_, _, _)
MissingOf(edges, c, d) ==
    IF edges = << >> THEN << >>
    ELSE LET e == Head(edges)
             rest == MissingOf(Tail(edges), c, d)
         IN  IF e[3] \in ExternalKinds THEN rest
             ELSE IF Exists(resolve_dep_target(e[2], c), d) THEN rest
             ELSE << e >> \o rest

\* dep_sanity_check with a fault: strict falls through to warn.
dep_sanity_check_strict_as_warn(edges, c, d) ==
    LET miss == MissingOf(edges, c, d)
    IN  CASE c.sanity_mode = "off" -> [ ok |-> TRUE, missing |-> << >> ]
          [] OTHER -> [ ok |-> TRUE, missing |-> miss ]

\* dep_sanity_check: [ ok, missing ].
dep_sanity_check(edges, c, d) ==
    LET miss == MissingOf(edges, c, d)
    IN  CASE c.sanity_mode = "off" -> [ ok |-> TRUE, missing |-> << >> ]
          [] c.sanity_mode = "strict" -> [ ok |-> miss = << >>, missing |-> miss ]
          [] OTHER -> [ ok |-> TRUE, missing |-> miss ]

----------------------------------------------------------------------------
(* Freshness Evaluator. *)

\* now_iso: the UTC wall time, with the suffix Z.
now_iso(t) == [ wall |-> t, suffix |-> "Z" ]

\* datetime.fromisoformat(s.replace("Z", "")).timestamp(): the Z is dropped,
\* and a datetime with no zone is read as local time.
local_timestamp(iso, zone) == iso.wall - zone

\* int(out.stdout.strip() or "0")
commit_time(out) == IF out = << >> THEN 0 ELSE out[1]

RECURSIVE LastTouch(_)
LastTouch(fs) ==
    IF fs = << >> THEN 0 ELSE Max(LastTouch(Tail(fs)), commit_time(Head(fs).commit))

eval_pack_freshness(fs, generated_iso, zone) ==
    local_timestamp(generated_iso, zone) >= LastTouch(fs)

----------------------------------------------------------------------------
(* Guard. *)

\* c.startswith(("contexter/", ".contexter/"))
HasAllowedPrefix(path) == Len(path) >= 2 /\ path[1] \in OutputDirs

\* guard_no_source_edits with a fault: any path inside a directory is allowed.
guard_allows_any_directory(candidates) ==
    { c \in candidates : ~(Len(c) >= 2) /\ c \notin ControlFiles }

guard_no_source_edits(candidates) ==
    { c \in candidates : ~HasAllowedPrefix(c) /\ c \notin ControlFiles }

----------------------------------------------------------------------------
(* States shared by the specifications: what each group of variables holds  *)
(* before the code that sets it has run.                                    *)

EnvIdle ==
    /\ environ = {} /\ tree_tokens = {} /\ tree = << >> /\ disk = {}
    /\ modified = {} /\ tz = 0 /\ clock = 0

NoTotals ==
    [ generated |-> now_iso(0), files_packed |-> 0, tokens_total |-> 0,
      dep_missing_count |-> 0, fresh_ok |-> TRUE, duration_set |-> FALSE ]

RunIdle(at) ==
    /\ pc = at /\ files = << >> /\ entries = << >> /\ deps = << >>
    /\ total_toks = 0 /\ truncated = FALSE /\ totals = NoTotals
    /\ ok_deps = TRUE /\ missing = << >> /\ outside = {}
    /\ pack = << >> /\ plan = << >> /\ exit_code = {}

WatchIdle ==
    /\ wpc = "off" /\ prev = {} /\ cur = {} /\ changed = {} /\ runs = 0

SectionIdle ==
    /\ lines = << >> /\ etruncated = FALSE /\ md = << >>

----------------------------------------------------------------------------
(* cmd_run, one action per stage.  pc names the stage about to run.         *)

\* StepAfter with a fault: the guard and the strict gate run before the write.
StepAfter_gates_before_write(at) ==
    CASE at = "start" -> "scope"
      [] at = "scope" -> "deps"
      [] at = "deps"  -> "fresh"
      [] at = "fresh" -> "guard"
      [] at = "guard" -> "gate"
      [] at = "gate"  -> "done"
      [] at = "write" -> "plan"
      [] at = "plan"  -> "done"

\* The order of cmd_run's stages.
StepAfter(at) ==
    CASE at = "start" -> "scope"
      [] at = "scope" -> "deps"
      [] at = "deps"  -> "fresh"
      [] at = "fresh" -> "write"
      [] at = "write" -> "plan"
      [] at = "plan"  -> "guard"
      [] at = "guard" -> "gate"
      [] at = "gate"  -> "done"

\* sys.exit(code): the process ends, and with it a watch session.
Exit(code) ==
    /\ exit_code' = { code }
    /\ pc' = "exited"
    /\ wpc' = IF cmd = "watch" THEN "exited" ELSE wpc

Continue(at) ==
    /\ pc' = StepAfter(at)
    /\ UNCHANGED << exit_code, wpc >>

\* load_cfg and the rare facts: no CONTEXTER.yaml ends the process with 2;
\* a missing rare fact appends the question to PLAN.md and ends it with 2.
RunStart ==
    /\ pc = "start"
    /\ LET miss == verify_rare_facts(cfg, environ, tree_tokens)
       IN  IF ~cfgfile
           THEN Exit(2) /\ UNCHANGED plan
           ELSE IF miss # << >>
                THEN /\ plan' = Append(plan, [ block |-> "QUESTIONS", miss |-> miss ])
                     /\ Exit(2)
                ELSE Continue("start") /\ UNCHANGED plan
    /\ UNCHANGED << cfgfile, cfg, envVars, files, entries, deps, total_toks, truncated,
                    totals, ok_deps, missing, outside, pack, cmd, prev, cur, changed,
                    runs, sectionVars >>

\* allowed_files, build_entries, enforce_budget, and the first totals.
Build ==
    /\ pc = "scope"
    /\ LET fs == allowed_files(tree)
           es == enforce_budget(build_entries(fs), cfg)
           toks == build_total_toks(fs)
       IN  /\ files' = fs
           /\ entries' = es
           /\ deps' = infer_all(fs, cfg)
           /\ total_toks' = toks
           /\ truncated' = (truncated_any(es) \/ toks > cfg.token_limit)
           /\ totals' = [ totals EXCEPT !.generated = now_iso(clock),
                                        !.files_packed = Len(es),
                                        !.tokens_total = toks ]
    /\ Continue("scope")
    /\ UNCHANGED << cfgfile, cfg, envVars, ok_deps, missing, outside, pack, plan, cmd,
                    prev, cur, changed, runs, sectionVars >>

DepSanity ==
    /\ pc = "deps"
    /\ LET r == dep_sanity_check(deps, cfg, disk)
       IN  /\ ok_deps' = r.ok
           /\ missing' = r.missing
           /\ totals' = [ totals EXCEPT !.dep_missing_count = Len(r.missing) ]
    /\ Continue("deps")
    /\ UNCHANGED << cfgfile, cfg, envVars, files, entries, deps, total_toks, truncated,
                    outside, pack, plan, cmd, prev, cur, changed, runs, sectionVars >>

Freshness ==
    /\ pc = "fresh"
    /\ totals' = [ totals EXCEPT !.fresh_ok =
                      IF cfg.pack_freshness
                      THEN eval_pack_freshness(files, totals.generated, tz)
                      ELSE TRUE ]
    /\ Continue("fresh")
    /\ UNCHANGED << cfgfile, cfg, envVars, files, entries, deps, total_toks, truncated,
                    ok_deps, missing, outside, pack, plan, cmd, prev, cur, changed,
                    runs, sectionVars >>

\* write_contextpack_md: the header, summary and metrics fields the totals
\* and the flag decide, and per entry whether its section is the truncated one.
contextpack(es, c, t, trunc) ==
    [ generated          |-> t.generated,
      token_limit        |-> c.token_limit,
      limiter            |-> IF trunc THEN "truncated" ELSE "configured",
      files_packed       |-> t.files_packed,
      tokens_total       |-> t.tokens_total,
      summary_truncated  |-> IF trunc THEN "yes" ELSE "no",
      sections           |-> [ i \in 1..Len(es) |-> es[i].truncated ],
      truncation_reason  |-> IF trunc THEN "over_budget" ELSE "none",
      dep_missing        |-> t.dep_missing_count,
      fresh_since_last_commit |-> IF t.fresh_ok THEN "yes" ELSE "no" ]

WritePack ==
    /\ pc = "write"
    /\ pack' = << contextpack(entries, cfg, totals, truncated) >>
    /\ Continue("write")
    /\ UNCHANGED << cfgfile, cfg, envVars, files, entries, deps, total_toks, truncated,
                    totals, ok_deps, missing, outside, plan, cmd, prev, cur, changed,
                    runs, sectionVars >>

AppendProgress ==
    /\ pc = "plan"
    /\ totals' = [ totals EXCEPT !.duration_set = TRUE ]
    /\ plan' = Append(plan, [ block |-> "PROGRESS",
                              dep_missing |-> totals.dep_missing_count,
                              fresh |-> totals.fresh_ok ])
    /\ Continue("plan")
    /\ UNCHANGED << cfgfile, cfg, envVars, files, entries, deps, total_toks, truncated,
                    ok_deps, missing, outside, pack, cmd, prev, cur, changed, runs,
                    sectionVars >>

Guard ==
    /\ pc = "guard"
    /\ outside' = guard_no_source_edits(modified)
    /\ IF outside' # {} THEN Exit(3) ELSE Continue("guard")
    /\ UNCHANGED << cfgfile, cfg, envVars, files, entries, deps, total_toks, truncated,
                    totals, ok_deps, missing, pack, plan, cmd, prev, cur, changed, runs,
                    sectionVars >>

\* The strict gate, then DONE: `run` ends with status 0, and in a watch
\* session cmd_run returns to the loop, which sets prev = cur.
StrictGate ==
    /\ pc = "gate"
    /\ LET gates_ok == ok_deps /\ totals.fresh_ok
       IN  IF ~gates_ok /\ cfg.sanity_mode = "strict"
           THEN Exit(3) /\ UNCHANGED prev
           ELSE IF cmd = "watch"
                THEN /\ pc' = "idle" /\ wpc' = "sleeping" /\ prev' = cur
                     /\ UNCHANGED exit_code
                ELSE Exit(0) /\ UNCHANGED prev
    /\ UNCHANGED << cfgfile, cfg, envVars, files, entries, deps, total_toks, truncated,
                    totals, ok_deps, missing, outside, pack, plan, cmd, cur, changed,
                    runs, sectionVars >>

----------------------------------------------------------------------------
(* SpecBudget: the scope and budget stage over every small tree.            *)

FileNames == << "a.py", "b.py", "c.py", "d.py", "e.py" >>

SourceFile(i, n, nl) ==
    [ path |-> << "src", FileNames[i] >>, chars |-> n, trail |-> nl, refs |-> << >>,
      commit |-> << >>, mtime |-> 0, skip |-> FALSE ]

\* The trees of k source files, of every size up to MaxChars.
BudgetTrees(k) ==
    { [ i \in 1..k |-> SourceFile(i, sizes[i], 0) ] : sizes \in [ 1..k -> 0..MaxChars ] }

InitBudget ==
    /\ cfgfile = TRUE
    /\ cfg \in { [ BaseCfg EXCEPT !.token_limit = b ] : b \in 0..MaxBudget }
    /\ \E k \in 0..MaxFiles : tree \in BudgetTrees(k)
    /\ environ = {} /\ tree_tokens = {} /\ disk = {} /\ modified = {}
    /\ tz = 0 /\ clock = 1
    /\ RunIdle("scope") /\ WatchIdle /\ SectionIdle /\ cmd = "run"

NextBudget == Build

SpecBudget == InitBudget /\ [][NextBudget]_vars

BuildDone == pc = StepAfter("scope")

RECURSIVE PrefixTokens(_, _)
PrefixTokens(es, i) ==
    IF i = 0 THEN 0 ELSE approx_tokens(es[i].chars) + PrefixTokens(es, i - 1)

TruncCount(es) == Cardinality({ i \in 1..Len(es) : es[i].truncated })

\* C1: after the budget pass, an entry is truncated exactly when it is the
\* first entry whose cost takes the running total over the budget, or comes
\* after it: every entry from that point on is truncated, none before it.
C1_TruncatedFromFirstOverflow ==
    BuildDone =>
        \A i \in 1..Len(entries) :
            entries[i].truncated <=>
                (\E k \in 1..i : PrefixTokens(entries, k) > cfg.token_limit)

\* C2: for the same entries, a budget no greater than the configured one
\* truncates at least as many entries, and a budget no smaller truncates at
\* most as many.
C2_BudgetMonotone ==
    BuildDone =>
        \A b \in 0..MaxBudget :
            LET other == TruncCount(enforce_budget(build_entries(files),
                                                   [ cfg EXCEPT !.token_limit = b ]))
            IN  /\ (b <= cfg.token_limit => TruncCount(entries) <= other)
                /\ (b >= cfg.token_limit => TruncCount(entries) >= other)

----------------------------------------------------------------------------
(* SpecPack: the same trees and budgets, carried on to the written pack.    *)

\* The trees of k source files, of every size, ending in a newline or not.
PackTrees(k) ==
    { [ i \in 1..k |-> SourceFile(i, sizes[i], nls[i]) ] :
        sizes \in [ 1..k -> 0..MaxChars ], nls \in [ 1..k -> 0..1 ] }

InitPack ==
    /\ cfgfile = TRUE
    /\ cfg \in { [ BaseCfg EXCEPT !.token_limit = b ] : b \in 1..MaxBudget }
    /\ \E k \in 0..MaxFiles : tree \in PackTrees(k)
    /\ environ = {} /\ tree_tokens = {} /\ disk = {} /\ modified = {}
    /\ tz = 0 /\ clock = 1
    /\ RunIdle("scope") /\ WatchIdle /\ SectionIdle /\ cmd = "run"

NextPack == Build \/ DepSanity \/ Freshness \/ WritePack

SpecPack == InitPack /\ [][NextPack]_vars

PackWritten == pack # << >>

\* The pack reports truncation: header limiter, summary line and metrics line.
ReportsTruncation(p) ==
    /\ p.limiter = "truncated"
    /\ p.summary_truncated = "yes"
    /\ p.truncation_reason = "over_budget"

\* Some packed entry is rendered as a truncated section (anchors, not full text).
SomeSectionTruncated(p) == \E i \in 1..Len(p.sections) : p.sections[i]

\* C11: the written pack reports truncation exactly when at least one packed
\* entry is marked truncated and rendered with truncation anchors; the
\* corpus-wide estimate never exceeds the budget while no entry is marked.
C11_RunFlagAgreesWithMarks ==
    PackWritten =>
        /\ ReportsTruncation(pack[1]) <=> SomeSectionTruncated(pack[1])
        /\ ~(total_toks > cfg.token_limit /\ ~truncated_any(entries))

----------------------------------------------------------------------------
(* SpecDeps: scope, then the dependency sanity check, over small texts,     *)
(* ignore patterns, alias rules and disks.                                  *)

Modes == { "off", "warn", "strict" }

RefUniverse ==
    { << "pkg.util", "import" >>, << "os", "import" >>, << ".", "import" >>,
      << "httpx", "import" >>, << "https://example.org/api", "http" >>,
      << "queue:jobs", "queue" >> }

IgnorePatterns == { { "os" }, { "pkg.util", "pkg.io" } }

AliasRule == [ from |-> { "pkg.util" }, to |-> "src/pkg/util" ]

DiskUniverse ==
    { << "src/pkg/util", ".py" >>, << "os", "" >>, << "pkg.util", "/index.js" >> }

TextFile(name, refs, commit) ==
    [ path |-> << "src", name >>, chars |-> 8, trail |-> 1, refs |-> refs,
      commit |-> commit, mtime |-> 0, skip |-> FALSE ]

InitDeps ==
    /\ cfgfile = TRUE
    /\ cfg \in { [ BaseCfg EXCEPT !.sanity_mode = m, !.ignore_targets = ig,
                                  !.path_aliases = al, !.dependency_kinds = ks ] :
                 m \in Modes, ig \in SUBSET IgnorePatterns,
                 al \in { << >>, << AliasRule >> },
                 ks \in { { "import" }, { "import", "http", "db", "queue" } } }
    /\ tree \in { << TextFile("app.py", refs, << >>) >> : refs \in SeqsUpTo(RefUniverse, MaxRefs) }
    /\ disk \in SUBSET DiskUniverse
    /\ environ = {} /\ tree_tokens = {} /\ modified = {} /\ tz = 0 /\ clock = 1
    /\ RunIdle("scope") /\ WatchIdle /\ SectionIdle /\ cmd = "run"

NextDeps == Build \/ DepSanity

SpecDeps == InitDeps /\ [][NextDeps]_vars

DepsDone == pc = StepAfter("deps")

\* The target of edge e matches a configured deps.ignore_targets pattern.
IgnoredEdge(e) == \E rx \in cfg.ignore_targets : e[2] \in rx

InternalEdge(e) == e[3] \notin ExternalKinds

\* C4: with mode warn or strict, an internal edge whose target matches an
\* ignore pattern is never among the missing edges, adds nothing to the
\* missing count, and never makes the strict check fail.
C4_IgnoredTargetsDropped ==
    (DepsDone /\ cfg.sanity_mode \in { "warn", "strict" }) =>
        /\ \A i \in 1..Len(missing) : ~IgnoredEdge(missing[i])
        /\ totals.dep_missing_count =
              Cardinality({ i \in 1..Len(missing) : ~IgnoredEdge(missing[i]) })
        /\ (~ok_deps => \E i \in 1..Len(missing) : ~IgnoredEdge(missing[i]))

----------------------------------------------------------------------------
(* SpecFresh: scope, dependency check and freshness over small histories,   *)
(* clocks and zones.                                                        *)

ZoneOffsets == { -1, 0, 1 }

CommitOutputs == { << >> } \cup { << t >> : t \in 0..MaxTime }

FreshTrees ==
    { << >> } \cup { << TextFile("a.py", << >>, c) >> : c \in CommitOutputs }
      \cup { << TextFile("a.py", << >>, c), TextFile("b.py", << >>, d) >> :
               c \in CommitOutputs, d \in CommitOutputs }

InitFresh ==
    /\ cfgfile = TRUE
    /\ cfg \in { [ BaseCfg EXCEPT !.pack_freshness = pf ] : pf \in BOOLEAN }
    /\ tree \in FreshTrees
    /\ clock \in 1..MaxTime
    /\ tz \in ZoneOffsets
    /\ environ = {} /\ tree_tokens = {} /\ disk = {} /\ modified = {}
    /\ RunIdle("scope") /\ WatchIdle /\ SectionIdle /\ cmd = "run"

NextFresh == Build \/ DepSanity \/ Freshness

SpecFresh == InitFresh /\ [][NextFresh]_vars

FreshDone == pc = StepAfter("fresh")

\* The greatest last-commit time over the packed paths, a path with no
\* commit output contributing 0.
RECURSIVE MaxCommitTime(_, _)
MaxCommitTime(fs, i) ==
    IF i = 0 THEN 0
    ELSE LET t == IF fs[i].commit = << >> THEN 0 ELSE fs[i].commit[1]
             m == MaxCommitTime(fs, i - 1)
         IN  IF t >= m THEN t ELSE m

\* C9: the evaluator reports fresh exactly when the time the pack was
\* generated (the UTC instant its header records) is at or after the
\* greatest last-commit time of the packed paths; equality is fresh.
C9_FreshIffGeneratedAtOrAfterLastCommit ==
    (FreshDone /\ cfg.pack_freshness) =>
        (totals.fresh_ok <=> (clock >= MaxCommitTime(files, Len(files))))

----------------------------------------------------------------------------
(* SpecRun: whole runs of `run` over small configurations and trees.        *)

RunTrees ==
    { << >>,
      << TextFile("app.py", << << "pkg.util", "import" >>,
                               << "https://example.org/api", "http" >> >>, << 1 >>),
         [ TextFile("CONTEXTPACK.md", << >>, << >>)
             EXCEPT !.path = << "contexter", "pack", "CONTEXTPACK.md" >> ] >>,
      << TextFile("app.py", << << "os", "import" >> >>, << MaxTime >>) >>,
      << TextFile("app.py", << >>, << >>) >> }

RareFactCfgs ==
    { << << >>, << >> >>, << << "API_URL" >>, << >> >>, << << >>, << "--fast" >> >> }

ModifiedChoices ==
    { {}, { << "PLAN.md" >> }, { << "contexter", "pack", "CONTEXTPACK.md" >> },
      { << "src", "app.py" >> }, { << "src", "app.py" >>, << "PLAN.md" >> } }

RunCfgs ==
    { [ BaseCfg EXCEPT !.sanity_mode = m, !.ignore_targets = ig, !.path_aliases = al,
                       !.rf_env = rf[1], !.rf_flags = rf[2], !.pack_freshness = pf ] :
        m \in Modes, ig \in { {}, { { "os" } } }, al \in { << >>, << AliasRule >> },
        rf \in RareFactCfgs, pf \in BOOLEAN }

InitRun ==
    /\ cfgfile \in BOOLEAN
    /\ cfg \in IF cfgfile THEN RunCfgs ELSE { BaseCfg }
    /\ environ \in SUBSET { "API_URL" }
    /\ tree_tokens \in SUBSET { "--fast" }
    /\ tree \in RunTrees
    /\ disk \in SUBSET { << "src/pkg/util", ".py" >> }
    /\ modified \in ModifiedChoices
    /\ tz = 0 /\ clock = 1
    /\ RunIdle("start") /\ WatchIdle /\ SectionIdle /\ cmd = "run"

NextRun ==
    \/ RunStart \/ Build \/ DepSanity \/ Freshness
    \/ WritePack \/ AppendProgress \/ Guard \/ StrictGate

SpecRun == InitRun /\ [][NextRun]_vars

RunEnded == pc = "exited"

\* Edge e is internal, not ignored, and none of the candidate paths its
\* target expands to (after the alias rules) exists.
UnresolvedEdge(e) ==
    /\ InternalEdge(e) /\ ~IgnoredEdge(e)
    /\ LET cands == Expand(apply_aliases(e[2], cfg.path_aliases))
       IN  \A i \in 1..Len(cands) : cands[i] \notin disk

SomeUnresolved == \E i \in 1..Len(deps) : UnresolvedEdge(deps[i])

\* The modified paths outside contexter/, .contexter/ and the control files.
AllowSetViolations ==
    { p \in modified :
        /\ ~(Len(p) >= 2 /\ p[1] \in { "contexter", ".contexter" })
        /\ p \notin { << "PLAN.md" >>, << "CONTEXTER.yaml" >>, << "ctx.py" >> } }

\* Some configured rare fact is not verified.
RareFactUnverified ==
    \/ \E i \in 1..Len(cfg.rf_env) : cfg.rf_env[i] \notin environ
    \/ \E i \in 1..Len(cfg.rf_flags) : cfg.rf_flags[i] \notin tree_tokens
    \/ \E i \in 1..Len(cfg.rf_paths) : cfg.rf_paths[i] \notin tree_tokens

C8_AbstainBeforePacking ==
    (cfgfile /\ RareFactUnverified /\ pc # "start") =>
        /\ pc = "exited" /\ exit_code = { 2 }
        /\ files = << >> /\ entries = << >> /\ total_toks = 0 /\ totals = NoTotals
        /\ pack = << >> /\ outside = {}
        /\ Len(plan) = 1 /\ plan[1].block = "QUESTIONS" /\ plan[1].miss # << >>

C8_Witness ==
    /\ cfgfile /\ RareFactUnverified /\ pc = "exited" /\ exit_code = { 2 }
    /\ Len(plan) = 1 /\ tree # << >> /\ AllowSetViolations # {}

----------------------------------------------------------------------------
(* cmd_watch, and the edits the user makes while it runs.                   *)

\* {p: (ROOT/p).stat().st_mtime for p in allowed_files(cfg)}
Snapshot(t) ==
    LET fs == allowed_files(t)
    IN  { << fs[i].path, fs[i].mtime >> : i \in 1..Len(fs) }

\* [p for p in cur if p not in prev or cur[p] != prev[p]]
ChangedPaths(c, p) == { x[1] : x \in { y \in c : y \notin p } }

\* load_cfg, then the first snapshot.
WatchStart ==
    /\ wpc = "start"
    /\ IF ~cfgfile
       THEN Exit(2) /\ UNCHANGED prev
       ELSE /\ prev' = Snapshot(tree)
            /\ wpc' = "sleeping"
            /\ UNCHANGED << pc, exit_code >>
    /\ UNCHANGED << cfgfile, cfg, envVars, files, entries, deps, total_toks, truncated,
                    totals, ok_deps, missing, outside, pack, plan, cmd, cur, changed,
                    runs, sectionVars >>

\* One turn of the loop up to the call of cmd_run; with no change, prev = cur.
Poll ==
    /\ wpc = "sleeping" /\ runs < MaxRuns
    /\ cur' = Snapshot(tree)
    /\ changed' = ChangedPaths(cur', prev)
    /\ IF changed' # {}
       THEN /\ wpc' = "running" /\ pc' = "start" /\ runs' = runs + 1
            /\ files' = << >> /\ entries' = << >> /\ deps' = << >>
            /\ total_toks' = 0 /\ truncated' = FALSE /\ totals' = NoTotals
            /\ ok_deps' = TRUE /\ missing' = << >> /\ outside' = {}
            /\ UNCHANGED prev
       ELSE /\ prev' = cur'
            /\ UNCHANGED << wpc, pc, runs, files, entries, deps, total_toks, truncated,
                            totals, ok_deps, missing, outside >>
    /\ UNCHANGED << cfgfile, cfg, envVars, pack, plan, exit_code, cmd, sectionVars >>

\* Ctrl+C: `except KeyboardInterrupt: pass`, and main returns.
KeyboardInterrupt ==
    /\ wpc \in { "sleeping", "running" }
    /\ wpc' = "exited" /\ pc' = "exited" /\ exit_code' = { 0 }
    /\ UNCHANGED << cfgfile, cfg, envVars, files, entries, deps, total_toks, truncated,
                    totals, ok_deps, missing, outside, pack, plan, cmd, prev, cur,
                    changed, runs, sectionVars >>

WatchAlive == wpc \in { "sleeping", "running" }

\* The user saves file i; git lists it as modified when it is tracked.
Touch ==
    /\ WatchAlive
    /\ \E i \in 1..Len(tree), m \in 0..MaxMtime, tracked \in BOOLEAN :
          /\ m # tree[i].mtime
          /\ tree' = [ tree EXCEPT ![i].mtime = m ]
          /\ modified' = IF tracked THEN modified \cup { tree[i].path } ELSE modified
    /\ UNCHANGED << cfgfile, cfg, environ, tree_tokens, disk, tz, clock, runVars,
                    cmd, watchVars, sectionVars >>

\* The user adds a file to the tree.
Create ==
    /\ WatchAlive /\ Len(tree) < MaxWatched
    /\ tree' = Append(tree, TextFile(FileNames[Len(tree) + 1], << >>, << >>))
    /\ UNCHANGED << cfgfile, cfg, environ, tree_tokens, disk, modified, tz, clock,
                    runVars, cmd, watchVars, sectionVars >>

----------------------------------------------------------------------------
(* SpecWatch: a watch session. *)

InitWatch ==
    /\ cfgfile \in BOOLEAN
    /\ cfg \in IF cfgfile
               THEN { [ BaseCfg EXCEPT !.sanity_mode = m, !.rf_env = e ] :
                        m \in Modes, e \in { << >>, << "API_URL" >> } }
               ELSE { BaseCfg }
    /\ environ \in SUBSET { "API_URL" }
    /\ tree = << TextFile("a.py", << << "os", "import" >> >>, << >>) >>
    /\ tree_tokens = {} /\ disk = {} /\ modified = {} /\ tz = 0 /\ clock = 1
    /\ RunIdle("idle") /\ SectionIdle /\ cmd = "watch"
    /\ wpc = "start" /\ prev = {} /\ cur = {} /\ changed = {} /\ runs = 0

NextWatch ==
    \/ WatchStart \/ Poll \/ KeyboardInterrupt \/ Touch \/ Create
    \/ RunStart \/ Build \/ DepSanity \/ Freshness
    \/ WritePack \/ AppendProgress \/ Guard \/ StrictGate

SpecWatch == InitWatch /\ [][NextWatch]_vars

\* A step of the loop that polls: the session sleeps, and neither the user
\* nor Ctrl+C acts.
PollStep ==
    /\ wpc = "sleeping" /\ tree' = tree /\ modified' = modified
    /\ exit_code' = exit_code

\* Some in-scope file is new, or its mtime differs from the previous poll's.
ChangePending == ChangedPaths(Snapshot(tree), prev) # {}

\* At a poll that sees a change exactly one run starts, at any other poll
\* none, and a run starts only when no run is under way.
C10_OneRunPerDetectedChange ==
    [][ /\ (PollStep /\ runs < MaxRuns) =>
              IF ChangePending THEN runs' = runs + 1 /\ pc' = "start"
              ELSE runs' = runs
        /\ (runs' # runs => (pc \in { "idle" } /\ runs' = runs + 1)) ]_vars

\* C10: at every poll that sees a change exactly one run starts, runs never
\* overlap, and this goes on whatever the outcome of the runs before: the
\* end of a run, be it success, abstention or gate failure, leaves the
\* session polling.
C10_EveryChangeOneRunWhateverOutcome ==
    [][ /\ (PollStep /\ runs < MaxRuns) =>
              IF ChangePending THEN runs' = runs + 1 /\ pc' = "start"
              ELSE runs' = runs
        /\ (runs' # runs => (pc \in { "idle" } /\ runs' = runs + 1))
        /\ (wpc = "running" /\ pc' \in { "idle", "exited" } /\ exit_code' # { 0 }) =>
              wpc' = "sleeping" ]_vars

----------------------------------------------------------------------------
(* SpecSection: emit_file_section on one file.                              *)

SectionCfgs ==
    { [ BaseCfg EXCEPT !.per_file_snippet_lines = m,
                       !.tail_lines_on_truncate = t,
                       !.mid_block_pick = k ] :
        m \in 2..MaxSnippet, t \in 1..MaxTail, k \in {"none", "largest_function"} }

InitSection ==
    /\ cfg \in { c \in SectionCfgs : c.tail_lines_on_truncate < c.per_file_snippet_lines }
    /\ lines \in { ls \in SeqsUpTo(LineKinds, MaxLen) : Len(ls) >= 1 }
    /\ etruncated \in BOOLEAN
    /\ md = << >>
    /\ cfgfile = TRUE
    /\ EnvIdle /\ RunIdle("section") /\ WatchIdle /\ cmd = "run"

EmitFileSection ==
    /\ pc = "section" /\ md = << >>
    /\ md' = emit_file_section(lines, cfg, etruncated)
    /\ UNCHANGED << cfgfile, cfg, envVars, runVars, watchVars, cmd, lines, etruncated >>

NextSection == EmitFileSection

SpecSection == InitSection /\ [][NextSection]_vars

\* C3: every anchor listed for a truncated file lies in [1, total] with
\* start <= end, no two listed anchors share a line, and the anchors are
\* listed in ascending order of start.
C3_AnchorsInRangeDisjointSorted ==
    (etruncated /\ md # << >>) =>
        /\ \A i \in 1..Len(md) : 1 <= md[i][1] /\ md[i][1] <= md[i][2] /\ md[i][2] <= Len(lines)
        /\ \A i, j \in 1..Len(md) :
              i # j => (md[i][2] < md[j][1] \/ md[j][2] < md[i][1])
        /\ \A i, j \in 1..Len(md) : i < j => md[i][1] <= md[j][1]

====
